---- MODULE Spec2Model ----
(***************************************************************************)
(* Model of frontend/src/components/ContextFilePicker.tsx: the selection   *)
(* of context paths (selectedPaths, owned by the embedding component and   *)
(* changed through onSelectionChange), the preview collection (previews)   *)
(* and the loading flag (isLoadingPreview), under the asynchronous native  *)
(* dialogs and the asynchronous preview request.                           *)
(*                                                                         *)
(* A handler that awaits is split at its await: the part before the await  *)
(* is one action, the continuation is another.  The continuation runs in   *)
(* the closure of the render in which the handler was invoked, so the      *)
(* selectedPaths it reads is the value captured then (field snap / paths). *)
(***************************************************************************)
EXTENDS Integers, Sequences, FiniteSets, Bags, TLC

\* ---- bounds ----
MaxResult == 2       \* longest list a file dialog returns
MaxDialogs == 2      \* dialogs pending at the same time
LiveDialogs == 1     \* the same, in the specification with fairness

\* the paths the user can pick; the code only compares paths for equality
Paths == {1, 2}
NoPath == 0          \* null result of the folder dialog / no path argument

\* ---- sequences ----
Range(s) == {s[i] : i \in 1..Len(s)}

SeqsUpTo(n) == UNION {[1..k -> Paths] : k \in 0..n}

RECURSIVE SubSeqs(_)
SubSeqs(s) ==
  IF s = <<>> THEN {<<>>}
  ELSE LET rest == SubSeqs(Tail(s))
       IN  rest \cup {<<Head(s)>> \o r : r \in rest}

\* Array.prototype.includes on an array of strings
includes(arr, x) == \E i \in 1..Len(arr) : arr[i] = x

\* Array.prototype.filter
RECURSIVE filter(_, _)
filter(arr, drop) ==
  IF arr = <<>> THEN <<>>
  ELSE IF Head(arr) = drop THEN filter(Tail(arr), drop)
       ELSE <<Head(arr)>> \o filter(Tail(arr), drop)

\* ---- state ----
VARIABLES
  selectedPaths,     \* prop: the paths currently selected, in order
  previews,          \* useState: sequence of the file_path of each preview
  isLoadingPreview,  \* useState: the loading flag
  dialogs,           \* bag of pending dialog calls [kind, snap]
  inflight,          \* sequence of unresolved preview requests [paths, stage]
  lastRemoved,       \* the path of the latest remove, while it is unselected
  ev                 \* what the latest step did: op, argument, outputs

vars == <<selectedPaths, previews, isLoadingPreview, dialogs, inflight,
          lastRemoved, ev>>

Event(op, path, files, log, notified) ==
  [op |-> op, path |-> path, files |-> files, log |-> log,
   notified |-> notified, before |-> <<>>]

\* the same, recording the PathSet the step started from
EventFrom(before, op, path, files, log, notified) ==
  [Event(op, path, files, log, notified) EXCEPT !.before = before]

\* the embedding component stores the notified value and passes it back
onSelectionChange(paths) == paths

PreviewPaths == Range(previews)

\* the path of the latest remove is tracked until it is selected again
Track(p, paths) == IF p # NoPath /\ ~includes(paths, p) THEN p ELSE NoPath

Init ==
  /\ selectedPaths = <<>>
  /\ previews = <<>>
  /\ isLoadingPreview = FALSE
  /\ dialogs = EmptyBag
  /\ inflight = <<>>
  /\ lastRemoved = NoPath
  /\ ev = Event("init", NoPath, <<>>, "", FALSE)

\* ---- file dialog ----
Null == [isNull |-> TRUE, paths |-> <<>>]
FileSelections ==
  {Null} \cup {[isNull |-> FALSE, paths |-> s] : s \in SeqsUpTo(MaxResult)}

\* variant: the includes test of line 37 is missing
RECURSIVE newPathsNoDedup(_, _)
newPathsNoDedup(acc, selected) ==
  IF selected = <<>> THEN acc
  ELSE newPathsNoDedup(Append(acc, Head(selected)), Tail(selected))

\* variant: unshift instead of push at line 38
RECURSIVE newPathsUnshift(_, _)
newPathsUnshift(acc, selected) ==
  IF selected = <<>> THEN acc
  ELSE newPathsUnshift(IF ~includes(acc, Head(selected))
                       THEN <<Head(selected)>> \o acc ELSE acc,
                       Tail(selected))

\* lines 35-40: copy of the captured paths, then push each path not included
RECURSIVE newPaths(_, _)
newPaths(acc, selected) ==
  IF selected = <<>> THEN acc
  ELSE newPaths(IF ~includes(acc, Head(selected))
                THEN Append(acc, Head(selected)) ELSE acc,
                Tail(selected))

\* lines 30-33 and 48-51: the handler runs up to the await of invoke
RequestDialog(kind, op, cap) ==
  /\ BagCardinality(dialogs) < cap
  /\ dialogs' = dialogs (+) SetToBag({[kind |-> kind, snap |-> selectedPaths]})
  /\ ev' = Event(op, NoPath, <<>>, "", FALSE)
  /\ UNCHANGED <<selectedPaths, previews, isLoadingPreview, inflight, lastRemoved>>

AddFilesRequested == RequestDialog("files", "addFilesRequested", MaxDialogs)

AddFolderRequested == RequestDialog("folder", "addFolderRequested", MaxDialogs)

Pending(kind) == {d \in BagToSet(dialogs) : d.kind = kind}

\* variant: line 34 tests only that the result is not null
handleAddFilesNoLengthTest(d, selected) ==
  /\ dialogs' = dialogs (-) SetToBag({d})
  /\ IF ~selected.isNull
     THEN /\ selectedPaths' = onSelectionChange(newPaths(d.snap, selected.paths))
          /\ ev' = Event("filesResolved", NoPath, selected.paths, "", TRUE)
     ELSE /\ selectedPaths' = selectedPaths
          /\ ev' = Event("filesResolved", NoPath, selected.paths, "", FALSE)
  /\ lastRemoved' = Track(lastRemoved, selectedPaths')
  /\ UNCHANGED <<previews, isLoadingPreview, inflight>>

\* continuation of handleAddFiles after the await, lines 34-42
handleAddFiles(d, selected) ==
  /\ dialogs' = dialogs (-) SetToBag({d})
  /\ IF ~selected.isNull /\ Len(selected.paths) > 0
     THEN /\ selectedPaths' = onSelectionChange(newPaths(d.snap, selected.paths))
          /\ ev' = Event("filesResolved", NoPath, selected.paths, "", TRUE)
     ELSE /\ selectedPaths' = selectedPaths
          /\ ev' = Event("filesResolved", NoPath, selected.paths, "", FALSE)
  /\ lastRemoved' = Track(lastRemoved, selectedPaths')
  /\ UNCHANGED <<previews, isLoadingPreview, inflight>>

\* the awaited invoke rejects, lines 43-45
handleAddFilesCatch(d) ==
  /\ dialogs' = dialogs (-) SetToBag({d})
  /\ ev' = Event("filesRaised", NoPath, <<>>, "Failed to open file picker:", FALSE)
  /\ UNCHANGED <<selectedPaths, previews, isLoadingPreview, inflight, lastRemoved>>

FilesDialogResolves ==
  \E d \in Pending("files") : \E selected \in FileSelections :
    handleAddFiles(d, selected)

FilesDialogRaises == \E d \in Pending("files") : handleAddFilesCatch(d)

\* ---- folder dialog ----
FolderSelections == {NoPath} \cup Paths

\* lines 52-56
handleAddFolder(d, selected) ==
  /\ dialogs' = dialogs (-) SetToBag({d})
  /\ IF selected # NoPath
     THEN IF ~includes(d.snap, selected)
          THEN /\ selectedPaths' = onSelectionChange(Append(d.snap, selected))
               /\ ev' = EventFrom(selectedPaths, "folderResolved", selected, <<>>, "", TRUE)
          ELSE /\ selectedPaths' = selectedPaths
               /\ ev' = EventFrom(selectedPaths, "folderResolved", selected, <<>>, "", FALSE)
     ELSE /\ selectedPaths' = selectedPaths
          /\ ev' = Event("folderResolved", NoPath, <<>>, "", FALSE)
  /\ lastRemoved' = Track(lastRemoved, selectedPaths')
  /\ UNCHANGED <<previews, isLoadingPreview, inflight>>

\* variant: the catch block of the folder dialog also resets the previews
handleAddFolderCatchResets(d) ==
  /\ dialogs' = dialogs (-) SetToBag({d})
  /\ previews' = <<>>
  /\ ev' = Event("folderRaised", NoPath, <<>>, "Failed to open folder picker:", FALSE)
  /\ UNCHANGED <<selectedPaths, isLoadingPreview, inflight, lastRemoved>>

\* lines 57-59
handleAddFolderCatch(d) ==
  /\ dialogs' = dialogs (-) SetToBag({d})
  /\ ev' = Event("folderRaised", NoPath, <<>>, "Failed to open folder picker:", FALSE)
  /\ UNCHANGED <<selectedPaths, previews, isLoadingPreview, inflight, lastRemoved>>

FolderDialogResolves ==
  \E d \in Pending("folder") : \E selected \in FolderSelections :
    handleAddFolder(d, selected)

FolderDialogRaises == \E d \in Pending("folder") : handleAddFolderCatch(d)

\* ---- remove and clear ----
\* variant: line 65 keeps the entries of the removed path and drops the others
handleRemovePathInverted(pathToRemove) ==
  /\ selectedPaths' = onSelectionChange(filter(selectedPaths, pathToRemove))
  /\ previews' = SelectSeq(previews, LAMBDA x : x = pathToRemove)
  /\ lastRemoved' = pathToRemove
  /\ ev' = Event("remove", pathToRemove, <<>>, "", TRUE)
  /\ UNCHANGED <<isLoadingPreview, dialogs, inflight>>

\* lines 62-68; the Remove button exists per rendered path (lines 157-179)
handleRemovePath(pathToRemove) ==
  /\ selectedPaths' = onSelectionChange(filter(selectedPaths, pathToRemove))
  /\ previews' = filter(previews, pathToRemove)
  /\ lastRemoved' = pathToRemove
  /\ ev' = Event("remove", pathToRemove, <<>>, "", TRUE)
  /\ UNCHANGED <<isLoadingPreview, dialogs, inflight>>

RemoveRequested == \E p \in Range(selectedPaths) : handleRemovePath(p)

\* variant: line 72 is missing
handleClearAllKeepsPreviews ==
  /\ Len(selectedPaths) > 0
  /\ selectedPaths' = onSelectionChange(<<>>)
  /\ previews' = previews
  /\ lastRemoved' = lastRemoved
  /\ ev' = Event("clear", NoPath, <<>>, "", TRUE)
  /\ UNCHANGED <<isLoadingPreview, dialogs, inflight>>

\* lines 70-73; the Clear All button is rendered under line 128
handleClearAll ==
  /\ Len(selectedPaths) > 0
  /\ selectedPaths' = onSelectionChange(<<>>)
  /\ previews' = <<>>
  /\ lastRemoved' = lastRemoved
  /\ ev' = Event("clear", NoPath, <<>>, "", TRUE)
  /\ UNCHANGED <<isLoadingPreview, dialogs, inflight>>

\* ---- preview ----
\* variant: no length test
HasSelectionAlways == TRUE

\* the length test of line 76, which is also the one of line 128
HasSelection == Len(selectedPaths) > 0

\* variant: the button is not disabled while loading
PreviewButtonEnabledWhileLoading == Len(selectedPaths) > 0

\* lines 128-132: the button is rendered with a selection, disabled while loading
PreviewButtonEnabled == HasSelection /\ ~isLoadingPreview

\* lines 75-83 up to the await of fetch
handlePreview ==
  IF HasSelection
  THEN /\ isLoadingPreview' = TRUE
       /\ inflight' = Append(inflight, [paths |-> selectedPaths, stage |-> "fetch"])
       /\ ev' = Event("previewIssued", NoPath, <<>>, "", FALSE)
       /\ UNCHANGED <<selectedPaths, previews, dialogs, lastRemoved>>
  ELSE /\ ev' = Event("previewIgnored", NoPath, <<>>, "", FALSE)
       /\ UNCHANGED <<selectedPaths, previews, isLoadingPreview, dialogs,
                      inflight, lastRemoved>>

\* the user asks for a preview; a button that is absent or disabled does nothing
PreviewRequested ==
  IF PreviewButtonEnabled
  THEN handlePreview
  ELSE /\ ev' = Event("previewIgnored", NoPath, <<>>, "", FALSE)
       /\ UNCHANGED <<selectedPaths, previews, isLoadingPreview, dialogs,
                      inflight, lastRemoved>>

RemoveAt(s, i) == SubSeq(s, 1, i - 1) \o SubSeq(s, i + 1, Len(s))

\* lines 90-92
finally == isLoadingPreview' = FALSE

\* the endpoint answers with entries for paths it was asked about
PreviewData(paths) == SubSeqs(paths)

\* variant: a response that is not ok blanks the previews
fetchResolvesBlanking(i, ok) ==
  /\ inflight[i].stage = "fetch"
  /\ IF ok
     THEN /\ inflight' = [inflight EXCEPT ![i].stage = "json"]
          /\ isLoadingPreview' = isLoadingPreview
          /\ previews' = previews
          /\ ev' = Event("previewOk", NoPath, <<>>, "", FALSE)
     ELSE /\ inflight' = RemoveAt(inflight, i)
          /\ finally
          /\ previews' = <<>>
          /\ ev' = Event("previewNotOk", NoPath, <<>>, "", FALSE)
  /\ UNCHANGED <<selectedPaths, dialogs, lastRemoved>>

\* fetch resolves: line 84, response.ok
fetchResolves(i, ok) ==
  /\ inflight[i].stage = "fetch"
  /\ IF ok
     THEN /\ inflight' = [inflight EXCEPT ![i].stage = "json"]
          /\ isLoadingPreview' = isLoadingPreview
          /\ ev' = Event("previewOk", NoPath, <<>>, "", FALSE)
     ELSE /\ inflight' = RemoveAt(inflight, i)
          /\ finally
          /\ ev' = Event("previewNotOk", NoPath, <<>>, "", FALSE)
  /\ UNCHANGED <<selectedPaths, previews, dialogs, lastRemoved>>

\* variant: the flag is cleared after the try block instead of in finally
fetchRejectsKeepsLoading(i) ==
  /\ inflight[i].stage = "fetch"
  /\ inflight' = RemoveAt(inflight, i)
  /\ isLoadingPreview' = isLoadingPreview
  /\ ev' = Event("previewTransportError", NoPath, <<>>, "Failed to preview files:", FALSE)
  /\ UNCHANGED <<selectedPaths, previews, dialogs, lastRemoved>>

\* fetch rejects (transport error): lines 88-92
fetchRejects(i) ==
  /\ inflight[i].stage = "fetch"
  /\ inflight' = RemoveAt(inflight, i)
  /\ finally
  /\ ev' = Event("previewTransportError", NoPath, <<>>, "Failed to preview files:", FALSE)
  /\ UNCHANGED <<selectedPaths, previews, dialogs, lastRemoved>>

\* variant: line 86 appends the payload to the previous previews
jsonResolvesAppending(i, data) ==
  /\ inflight[i].stage = "json"
  /\ previews' = previews \o data
  /\ inflight' = RemoveAt(inflight, i)
  /\ finally
  /\ ev' = Event("previewSuccess", NoPath, data, "", FALSE)
  /\ UNCHANGED <<selectedPaths, dialogs, lastRemoved>>

\* response.json() resolves: lines 85-86, then finally
jsonResolves(i, data) ==
  /\ inflight[i].stage = "json"
  /\ previews' = data
  /\ inflight' = RemoveAt(inflight, i)
  /\ finally
  /\ ev' = Event("previewSuccess", NoPath, data, "", FALSE)
  /\ UNCHANGED <<selectedPaths, dialogs, lastRemoved>>

\* variant: the flag is cleared in the try block only
jsonRejectsKeepsLoading(i) ==
  /\ inflight[i].stage = "json"
  /\ inflight' = RemoveAt(inflight, i)
  /\ isLoadingPreview' = isLoadingPreview
  /\ ev' = Event("previewMalformed", NoPath, <<>>, "Failed to preview files:", FALSE)
  /\ UNCHANGED <<selectedPaths, previews, dialogs, lastRemoved>>

\* response.json() rejects (malformed payload): lines 88-92
jsonRejects(i) ==
  /\ inflight[i].stage = "json"
  /\ inflight' = RemoveAt(inflight, i)
  /\ finally
  /\ ev' = Event("previewMalformed", NoPath, <<>>, "Failed to preview files:", FALSE)
  /\ UNCHANGED <<selectedPaths, previews, dialogs, lastRemoved>>

FetchResolves == \E i \in 1..Len(inflight) : \E ok \in BOOLEAN : fetchResolves(i, ok)
FetchRejects == \E i \in 1..Len(inflight) : fetchRejects(i)
JsonResolves ==
  \E i \in 1..Len(inflight) : \E data \in PreviewData(inflight[i].paths) :
    jsonResolves(i, data)
JsonRejects == \E i \in 1..Len(inflight) : jsonRejects(i)

PreviewSettles == FetchResolves \/ FetchRejects \/ JsonResolves \/ JsonRejects

Next ==
  \/ AddFilesRequested
  \/ AddFolderRequested
  \/ FilesDialogResolves
  \/ FilesDialogRaises
  \/ FolderDialogResolves
  \/ FolderDialogRaises
  \/ RemoveRequested
  \/ handleClearAll
  \/ PreviewRequested
  \/ FetchResolves
  \/ FetchRejects
  \/ JsonResolves
  \/ JsonRejects

Spec == Init /\ [][Next]_vars

\* the same steps with at most LiveDialogs dialogs pending
AddFilesRequestedLive == RequestDialog("files", "addFilesRequested", LiveDialogs)

AddFolderRequestedLive == RequestDialog("folder", "addFolderRequested", LiveDialogs)

FairNext ==
  \/ AddFilesRequestedLive
  \/ AddFolderRequestedLive
  \/ FilesDialogResolves
  \/ FilesDialogRaises
  \/ FolderDialogResolves
  \/ FolderDialogRaises
  \/ RemoveRequested
  \/ handleClearAll
  \/ PreviewRequested
  \/ FetchResolves
  \/ FetchRejects
  \/ JsonResolves
  \/ JsonRejects

\* the endpoint answers every request: each pending stage eventually settles
FairSpec == Init /\ [][FairNext]_vars /\ WF_vars(PreviewSettles)

\* ---- the handlers from any selection ----
\* The session starts from any selection over a third path as well, with
\* previews of some of the selected paths; one dialog is open at a time and
\* handleRemovePath is called with any path, selected or not.
AllPaths == Paths \cup {3}

DupFreeSeqs(P) ==
  {q \in UNION {[1..k -> P] : k \in 0..Cardinality(P)} :
     \A i, j \in 1..Len(q) : i # j => q[i] # q[j]}

WideInit ==
  /\ selectedPaths \in DupFreeSeqs(AllPaths)
  /\ previews \in SubSeqs(selectedPaths)
  /\ isLoadingPreview = FALSE
  /\ dialogs = EmptyBag
  /\ inflight = <<>>
  /\ lastRemoved = NoPath
  /\ ev = Event("init", NoPath, <<>>, "", FALSE)

AddFilesRequestedAlone == RequestDialog("files", "addFilesRequested", 1)

AddFolderRequestedAlone == RequestDialog("folder", "addFolderRequested", 1)

RemoveAny == \E p \in AllPaths : handleRemovePath(p)

WideNext ==
  \/ AddFilesRequestedAlone
  \/ AddFolderRequestedAlone
  \/ FilesDialogResolves
  \/ FilesDialogRaises
  \/ FolderDialogResolves
  \/ FolderDialogRaises
  \/ RemoveAny
  \/ handleClearAll
  \/ PreviewRequested
  \/ FetchResolves
  \/ FetchRejects
  \/ JsonResolves
  \/ JsonRejects

WideSpec == WideInit /\ [][WideNext]_vars

\* ---- properties ----
NonCancelledFiles(e) == e.op = "filesResolved" /\ e.files # <<>>
NonCancelledFolder(e) == e.op = "folderResolved" /\ e.path # NoPath
Cancelled(e) ==
  \/ e.op = "filesResolved" /\ e.files = <<>>
  \/ e.op = "folderResolved" /\ e.path = NoPath
Raised(e) == e.op \in {"filesRaised", "folderRaised"}
PreviewFailed(e) ==
  e.op \in {"previewNotOk", "previewTransportError", "previewMalformed"}
PreviewResolved(e) == PreviewFailed(e) \/ e.op = "previewSuccess"

\* C1: a non-cancelled dialog result is merged into the value the PathSet
\* has when the dialog resolves: addMany for the file dialog, addOne for
\* the folder dialog, whatever happened since the dialog was requested.
C1_MergeAtResolution ==
  [][/\ NonCancelledFiles(ev') =>
          selectedPaths' = newPaths(selectedPaths, ev'.files)
     /\ NonCancelledFolder(ev') =>
          selectedPaths' = IF includes(selectedPaths, ev'.path)
                           THEN selectedPaths
                           ELSE Append(selectedPaths, ev'.path)]_vars

\* C2: once p was removed and is not selected again, the preview collection
\* has no entry for p, also after a preview request that was in flight at
\* the removal resolves.
C2_RemovedHasNoPreview ==
  lastRemoved # NoPath => lastRemoved \notin PreviewPaths

\* C3: every entry of the preview collection has a path that is selected.
C3_PreviewsAreSelected == PreviewPaths \subseteq Range(selectedPaths)

\* C4: the PathSet contains no two equal paths.
C4_NoDuplicates ==
  \A i, j \in 1..Len(selectedPaths) :
    i # j => selectedPaths[i] # selectedPaths[j]

\* a file dialog result that repeats a path was merged into a PathSet
C4_Witness ==
  /\ NonCancelledFiles(ev)
  /\ ev.notified
  /\ Cardinality(Range(ev.files)) < Len(ev.files)
  /\ Len(selectedPaths) = Cardinality(Paths)

\* C5: right after clear, the PathSet and the preview collection are empty.
C5_ClearResets == ev.op = "clear" => selectedPaths = <<>> /\ previews = <<>>

\* clear happened with a dialog pending and a preview request in flight
C5_Witness ==
  ev.op = "clear" /\ inflight # <<>> /\ dialogs # EmptyBag

\* C6: at most one preview request is in flight; a preview requested while
\* one is unresolved issues no second request.
C6_OneInFlight == Len(inflight) <= 1

\* a preview was requested and ignored while the request in flight is one
\* that was issued for an earlier, different PathSet
C6_Witness ==
  /\ ev.op = "previewIgnored"
  /\ Len(inflight) = 1
  /\ selectedPaths # <<>>
  /\ inflight[1].paths # selectedPaths

\* C7: a preview requested with an empty PathSet issues no request and
\* leaves the PathSet, the preview collection and the loading flag as is.
C7_GuardedPreview ==
  [][(ev'.op \in {"previewIssued", "previewIgnored"} /\ selectedPaths = <<>>)
       => UNCHANGED <<selectedPaths, previews, isLoadingPreview, inflight>>]_vars

\* a preview was requested with an empty PathSet and nothing in flight
C7_Witness ==
  /\ ev.op = "previewIgnored"
  /\ selectedPaths = <<>>
  /\ ~isLoadingPreview
  /\ inflight = <<>>

\* C8: a preview request that fails leaves the preview collection and the
\* PathSet as they were.
C8_FailureKeepsPreviews ==
  [][PreviewFailed(ev') =>
       previews' = previews /\ selectedPaths' = selectedPaths]_vars

\* a request failed while previews of an earlier request were shown
C8_Witness == PreviewFailed(ev) /\ previews # <<>>

\* C9: a preview request that resolves leaves the loading flag false, and
\* when the endpoint answers, a set loading flag is eventually cleared.
C9_LoadingClears ==
  /\ [](PreviewResolved(ev) => ~isLoadingPreview)
  /\ (isLoadingPreview ~> ~isLoadingPreview)

\* a request resolved by a raised error
C9_Witness ==
  ev.op \in {"previewTransportError", "previewMalformed"} /\ ~isLoadingPreview

\* C10: a cancelled or raised dialog leaves the PathSet and the preview
\* collection as they were and invokes no onSelectionChange; a raised
\* dialog call is logged.
C10_CancelIsNoop ==
  [][/\ (Cancelled(ev') \/ Raised(ev')) =>
          /\ selectedPaths' = selectedPaths
          /\ previews' = previews
          /\ ~ev'.notified
     /\ Raised(ev') => ev'.log # ""]_vars

\* a dialog was cancelled while paths and previews were shown
C10_Witness ==
  /\ Cancelled(ev)
  /\ selectedPaths # <<>>
  /\ previews # <<>>

\* C11: a preview request that ends in a non-success status is logged, as
\* a transport error and a malformed payload are.
C11_FailureIsLogged == PreviewFailed(ev) => ev.log # ""

NoDup(q) == \A i, j \in 1..Len(q) : i # j => q[i] # q[j]

\* the elements of I, up to index n, that are not in S, each at its first
\* occurrence
RECURSIVE FirstNew(_, _, _)
FirstNew(S, I, n) ==
  IF n = 0 THEN <<>>
  ELSE IF I[n] \notin Range(S) /\ (\A j \in 1..(n - 1) : I[j] # I[n])
       THEN Append(FirstNew(S, I, n - 1), I[n])
       ELSE FirstNew(S, I, n - 1)

\* C12: the merge of a file dialog result I into the sequence S it is
\* applied to is S in its order, followed by the elements of I not in S,
\* each once, in the order of their first occurrence; the result has no
\* duplicates and its elements are those of S and of I.
C12_DedupMerge ==
  [][NonCancelledFiles(ev') =>
       \E d \in Pending("files") :
         /\ dialogs' = dialogs (-) SetToBag({d})
         /\ selectedPaths' = d.snap \o FirstNew(d.snap, ev'.files, Len(ev'.files))
         /\ NoDup(selectedPaths')
         /\ Range(selectedPaths') = Range(d.snap) \cup Range(ev'.files)]_vars

\* a result that repeats a path was merged into a sequence with other paths
C12_Witness ==
  /\ NonCancelledFiles(ev)
  /\ Cardinality(Range(ev.files)) < Len(ev.files)
  /\ Len(selectedPaths) = 3
  /\ selectedPaths[1] = 3

\* C13: a folder dialog result that is already in the PathSet leaves the
\* PathSet as it is.
C13_IdempotentAdd ==
  [][(NonCancelledFolder(ev') /\ includes(selectedPaths, ev'.path))
       => selectedPaths' = selectedPaths]_vars

\* C14: for p not in the PathSet S, adding p through the folder dialog and
\* then removing p yields a PathSet equal to S.
C14_RemoveInvertsAdd ==
  [][(/\ NonCancelledFolder(ev)
      /\ ~includes(ev.before, ev.path)
      /\ ev'.op = "remove"
      /\ ev'.path = ev.path)
       => selectedPaths' = ev.before]_vars

Pos(q, x) == CHOOSE i \in 1..Len(q) : q[i] = x

\* C15: a dialog resolution, a remove and a preview resolution keep the
\* relative order of the paths that are selected before and after, and a
\* path added by a dialog result comes after every path that stays selected.
C15_OrderPreserved ==
  [][(ev'.op \in {"filesResolved", "folderResolved", "remove"}
        \/ PreviewResolved(ev'))
       => /\ \A x, y \in Range(selectedPaths) \cap Range(selectedPaths') :
               Pos(selectedPaths, x) < Pos(selectedPaths, y)
                 => Pos(selectedPaths', x) < Pos(selectedPaths', y)
          /\ ev'.op \in {"filesResolved", "folderResolved"} =>
               \A x \in Range(selectedPaths') \ Range(selectedPaths) :
                 \A y \in Range(selectedPaths) \cap Range(selectedPaths') :
                   Pos(selectedPaths', y) < Pos(selectedPaths', x)]_vars

\* C16: a preview request that resolves successfully makes the preview
\* collection exactly the sequence of entries the endpoint returned.
C16_PreviewsReplaced ==
  [][ev'.op = "previewSuccess" => previews' = ev'.files]_vars

\* a payload was installed over the previews of an earlier request
C16_Witness ==
  /\ ev.op = "previewSuccess"
  /\ previews # <<>>
  /\ PreviewPaths # Range(selectedPaths)

Without(q, p) == SelectSeq(q, LAMBDA x : x # p)

\* C17: remove(p) leaves the PathSet without p and the preview collection
\* without the entries of p, everything else in its order; the loading flag,
\* the pending dialogs and the request in flight are as before, and with p
\* not selected the PathSet is as before.
C17_RemoveOnlyP ==
  [][ev'.op = "remove" =>
       /\ selectedPaths' = Without(selectedPaths, ev'.path)
       /\ previews' = Without(previews, ev'.path)
       /\ UNCHANGED <<isLoadingPreview, dialogs, inflight>>
       /\ ~includes(selectedPaths, ev'.path) => selectedPaths' = selectedPaths]_vars

\* a path was removed between two others, with previews left and a request
\* in flight
C17_Witness ==
  /\ ev.op = "remove"
  /\ selectedPaths = <<3, 2>>
  /\ ev.path = 1
  /\ previews # <<>>
  /\ isLoadingPreview

\* C18: a non-cancelled dialog resolution drops no path that was in the
\* PathSet just before it, so two dialogs pending together leave the paths
\* of both results selected.
C18_ResolutionKeepsPaths ==
  [][(NonCancelledFiles(ev') \/ NonCancelledFolder(ev'))
       => Range(selectedPaths) \subseteq Range(selectedPaths')]_vars

\* C19: the loading flag is true exactly when a preview request was issued
\* and has not resolved.
C19_LoadingIffInFlight == isLoadingPreview <=> inflight # <<>>

\* the response arrived and its payload is being parsed, after the PathSet
\* the request was issued for was changed
C19_Witness ==
  /\ isLoadingPreview
  /\ Len(inflight) = 1
  /\ inflight[1].stage = "json"
  /\ inflight[1].paths # selectedPaths

DialogOps ==
  {"addFilesRequested", "addFolderRequested", "filesResolved",
   "folderResolved", "filesRaised", "folderRaised"}
PreviewOps ==
  {"previewIssued", "previewIgnored", "previewOk", "previewNotOk",
   "previewTransportError", "previewSuccess", "previewMalformed"}

\* C20: requesting or resolving a dialog leaves the preview collection and
\* the loading flag as they were; issuing or resolving a preview request
\* leaves the PathSet as it was and invokes no onSelectionChange.
C20_AxesAreSeparate ==
  [][/\ ev'.op \in DialogOps =>
          previews' = previews /\ isLoadingPreview' = isLoadingPreview
     /\ ev'.op \in PreviewOps =>
          selectedPaths' = selectedPaths /\ ~ev'.notified]_vars

\* a dialog result changed the PathSet while previews were shown and a
\* preview request was in flight
C20_Witness ==
  /\ NonCancelledFiles(ev)
  /\ ev.notified
  /\ previews # <<>>
  /\ isLoadingPreview

====
